---- MODULE Spec2Model ----
(***************************************************************************)
(* A model of data_prep_utils/dataset.py: the randomized stream merger     *)
(* DataLoaderChain, and the table-backed datasets ImageWithPandas and      *)
(* ImageBboxWithPandas (construction, split_with_count, __getitem__).      *)
(***************************************************************************)
EXTENDS Integers, Sequences, FiniteSets, Bags, TLC

(***************************************************************************)
(* Bounds of the model.                                                    *)
(***************************************************************************)
MaxSources == 2
MaxItems == 2

VARIABLES
    init_loaders,   \* the tuple given to DataLoaderChain.__init__ (never written again)
    loaders,        \* self.__loaders
    length,         \* self.__length
    pc,             \* position of the generator returned by __iter__
    run_loaders,    \* the loaders the running generator took its iterators from
    available,      \* the generator's local list of live iterators
    len_available,  \* the generator's local count of live iterators
    yielded,        \* bag of the items the running generator has yielded
    exhausted,      \* sources of this run whose iterator raised StopIteration
    last,           \* what the last loop iteration of the generator did
    earlier_done,   \* an earlier generator of this merger ran to its end
    table,          \* the rows of the DataFrame given to a dataset
    config,         \* root, extension, class_to_idx and the interpreter's -O flag
    ds,             \* the dataset instance last constructed (or the exception)
    got,            \* what the last __getitem__ returned
    split           \* what the last split_with_count returned

chainVars == <<init_loaders, loaders, length, pc, run_loaders, available,
               len_available, yielded, exhausted, last, earlier_done>>

tableVars == <<table, config, ds, got, split>>

vars == <<chainVars, tableVars>>

(***************************************************************************)
(* Sources.  A source is a re-iterable finite collection: n is the number  *)
(* of items one pass over it produces, len is what len(source) declares.   *)
(***************************************************************************)
Source(n, l) == [n |-> n, len |-> l]

Sources == {Source(k, k) : k \in 0..MaxItems} \cup {Source(1, 2)}

RECURSIVE TuplesUpTo(_, _)
TuplesUpTo(S, k) ==
    IF k = 0 THEN {<<>>}
    ELSE LET shorter == TuplesUpTo(S, k - 1)
         IN  shorter \cup {Append(t, x) : t \in {u \in shorter : Len(u) = k - 1}, x \in S}

LoaderTuples == TuplesUpTo(Sources, MaxSources)

\* Values a caller may assign to the loaders property: tuples and a list.
AssignedValues ==
    { [tuple |-> TRUE,  val |-> <<>>],
      [tuple |-> TRUE,  val |-> <<Source(1, 1)>>],
      [tuple |-> FALSE, val |-> <<Source(1, 1)>>] }

\* Mutant of SumLen: counts the items of each source instead of asking len().
RECURSIVE SumLen_CountsItems(_)
SumLen_CountsItems(value) ==
    IF value = <<>> THEN 0 ELSE Head(value).n + SumLen_CountsItems(Tail(value))

\* sum(map(len, value))
RECURSIVE SumLen(_)
SumLen(value) ==
    IF value = <<>> THEN 0 ELSE Head(value).len + SumLen(Tail(value))

\* Mutant of FreshIterators: iterators that were already drained are reused.
FreshIterators_Drained(ls) == [i \in 1..Len(ls) |-> [src |-> i, pos |-> ls[i].n]]

\* [iter(loader) for loader in self.loaders]: one fresh iterator per loader,
\* each at the start of its source.
FreshIterators(ls) == [i \in 1..Len(ls) |-> [src |-> i, pos |-> 0]]

\* next(it) succeeds while the source has an item left.
HasNext(it, ls) == it.pos < ls[it.src].n

\* Mutant of Pop: available.pop() removes the last iterator, whatever idx is.
Pop_Last(av, idx) == SubSeq(av, 1, Len(av) - 1)

\* available.pop(idx), idx 0-based as in the source.
Pop(av, idx) == SubSeq(av, 1, idx) \o SubSeq(av, idx + 2, Len(av))

\* Mutant of AllExhausted: the end test is off by one.
AllExhausted_OffByOne(n) == n < 0

\* if len_available == 0: return
AllExhausted(n) == n = 0

NoEvent == [kind |-> "none", src |-> 0, k |-> 0]

(***************************************************************************)
(* DataLoaderChain                                                         *)
(***************************************************************************)
ChainInit ==
    /\ init_loaders \in LoaderTuples
    /\ loaders = init_loaders
    /\ length = SumLen(init_loaders)
    /\ pc = "idle"
    /\ run_loaders = <<>>
    /\ available = <<>>
    /\ len_available = 0
    /\ yielded = EmptyBag
    /\ exhausted = {}
    /\ last = NoEvent
    /\ earlier_done = FALSE

\* The loaders setter.
SetLoaders ==
    /\ \E value \in AssignedValues :
         IF ~value.tuple
         THEN UNCHANGED <<loaders, length>>          \* raise TypeError
         ELSE /\ loaders' = value.val
              /\ length' = SumLen(value.val)
    /\ UNCHANGED <<init_loaders, pc, run_loaders, available, len_available,
                   yielded, exhausted, last, earlier_done, tableVars>>

\* iter(chain): a new generator; its body has not started to run.
Iter ==
    /\ earlier_done' = (earlier_done \/ pc = "done")
    /\ pc' = "created"
    /\ run_loaders' = <<>>
    /\ available' = <<>>
    /\ len_available' = 0
    /\ yielded' = EmptyBag
    /\ exhausted' = {}
    /\ last' = NoEvent
    /\ UNCHANGED <<init_loaders, loaders, length, tableVars>>

\* First next() on the generator: the two statements before the loop.
Snapshot ==
    /\ pc = "created"
    /\ pc' = "draining"
    /\ run_loaders' = loaders
    /\ available' = FreshIterators(loaders)
    /\ len_available' = Len(loaders)
    /\ UNCHANGED <<init_loaders, loaders, length, yielded, exhausted, last,
                   earlier_done, tableVars>>

\* One iteration of the while loop.
Pull ==
    /\ pc = "draining"
    /\ IF len_available <= 0
       THEN \* random.randrange(0) raises ValueError out of the generator
            /\ pc' = "raised"
            /\ last' = [kind |-> "ValueError", src |-> 0, k |-> 0]
            /\ UNCHANGED <<available, len_available, yielded, exhausted>>
       ELSE \E idx \in 0..(len_available - 1) :
              IF idx + 1 > Len(available)
              THEN \* available[idx] raises IndexError out of the generator
                   /\ pc' = "raised"
                   /\ last' = [kind |-> "IndexError", src |-> 0, k |-> 0]
                   /\ UNCHANGED <<available, len_available, yielded, exhausted>>
              ELSE LET it == available[idx + 1] IN
                   IF HasNext(it, run_loaders)
                   THEN /\ available' = [available EXCEPT ![idx + 1].pos = it.pos + 1]
                        /\ yielded' = yielded (+) SetToBag({<<it.src, it.pos + 1>>})
                        /\ last' = [kind |-> "yield", src |-> it.src, k |-> it.pos + 1]
                        /\ UNCHANGED <<pc, len_available, exhausted>>
                   ELSE /\ available' = Pop(available, idx)
                        /\ len_available' = len_available - 1
                        /\ exhausted' = exhausted \cup {it.src}
                        /\ last' = [kind |-> "exhausted", src |-> it.src, k |-> 0]
                        /\ pc' = IF AllExhausted(len_available - 1)
                                 THEN "done" ELSE "draining"
                        /\ UNCHANGED yielded
    /\ UNCHANGED <<init_loaders, loaders, length, run_loaders, earlier_done,
                   tableVars>>

(***************************************************************************)
(* Strings, optional values and paths.  A string is a sequence of          *)
(* characters; None is the empty option, Some(x) the option holding x.     *)
(***************************************************************************)
None == <<>>
Some(x) == <<x>>
IsNone(o) == o = <<>>
Val(o) == o[1]

\* Code points of the characters used.
Ord(c) ==
    CASE c = "." -> 46 [] c = "/" -> 47 [] c = "a" -> 97 [] c = "b" -> 98
      [] c = "h" -> 104 [] c = "p" -> 112 [] c = "~" -> 126

\* s < t for Python strings: lexicographic by code point.
RECURSIVE StrLess(_, _)
StrLess(s, t) ==
    IF t = <<>> THEN FALSE
    ELSE IF s = <<>> THEN TRUE
    ELSE IF s[1] = t[1] THEN StrLess(Tail(s), Tail(t))
    ELSE Ord(s[1]) < Ord(t[1])

\* s.startswith(c)
StartsWith(s, c) == Len(s) > 0 /\ s[1] = c

\* The home directory os.path.expanduser substitutes for a leading "~".
Home == <<"/", "h">>

\* os.path.expanduser(path)
ExpandUser(path) ==
    IF StartsWith(path, "~") /\ (Len(path) = 1 \/ path[2] = "/")
    THEN Home \o Tail(path)
    ELSE path

\* os.path.join(a, p)
PathJoin(a, p) ==
    IF StartsWith(p, "/") THEN p
    ELSE IF a = <<>> \/ a[Len(a)] = "/" THEN a \o p
    ELSE a \o <<"/">> \o p

(***************************************************************************)
(* pandas operations on a frame: a sequence of rows, each a record that    *)
(* carries its index label in the field row.                               *)
(***************************************************************************)
\* The elements of s in the order of their first appearance.
RECURSIVE FirstOccurrences(_)
FirstOccurrences(s) ==
    IF s = <<>> THEN <<>>
    ELSE LET r == FirstOccurrences(SubSeq(s, 1, Len(s) - 1))
             x == s[Len(s)]
         IN  IF \E i \in DOMAIN r : r[i] = x THEN r ELSE Append(r, x)

\* Mutant of DropDuplicates: only a run of adjacent equal rows is reduced.
RECURSIVE DropDuplicates_Adjacent(_)
DropDuplicates_Adjacent(s) ==
    IF Len(s) <= 1 THEN s
    ELSE LET r == DropDuplicates_Adjacent(SubSeq(s, 1, Len(s) - 1))
             x == s[Len(s)]
         IN  IF r[Len(r)] = x THEN r ELSE Append(r, x)

\* DataFrame.drop_duplicates() on the <<id, target>> rows of samples
DropDuplicates(s) == FirstOccurrences(s)

\* Series.unique()
Unique(s) == FirstOccurrences(s)

RECURSIVE Insert(_, _)
Insert(x, s) ==
    IF s = <<>> THEN <<x>>
    ELSE IF StrLess(x, Head(s)) THEN <<x>> \o s
    ELSE <<Head(s)>> \o Insert(x, Tail(s))

\* Mutant of Sorted: the classes stay in their order of first appearance.
Sorted_Unsorted(s) == s

\* sorted(...)
RECURSIVE Sorted(_)
Sorted(s) == IF s = <<>> THEN <<>> ELSE Insert(Head(s), Sorted(Tail(s)))

\* {cls_name: i for i, cls_name in enumerate(classes)}, a dict as its set of items
Enumerate(classes) == {<<classes[i], i - 1>> : i \in DOMAIN classes}

HasKey(d, x) == \E kv \in d : kv[1] = x
Lookup(d, x) == (CHOOSE kv \in d : kv[1] = x)[2]

Column(frame, f) == [i \in DOMAIN frame |-> frame[i][f]]

\* pandas.DataFrame(rows): the default index labels are 0, 1, 2, ...
Frame(rows) ==
    [i \in DOMAIN rows |->
        [row |-> i - 1, id |-> rows[i].id, target |-> rows[i].target,
         box |-> rows[i].box]]

(***************************************************************************)
(* Floating-point box coordinates: a number or NaN.                        *)
(***************************************************************************)
Num(v) == [nan |-> FALSE, v |-> v]
NaN == [nan |-> TRUE, v |-> 0]
Add(a, b) == IF a.nan \/ b.nan THEN NaN ELSE Num(a.v + b.v)
\* a != a holds exactly for NaN
NotEqualSelf(a) == a.nan

(***************************************************************************)
(* The part of the two constructors that is the same statement for         *)
(* statement: the extension check, path resolution and class mapping.      *)
(***************************************************************************)
\* assert extension.startswith('.') or extension is None
ExtensionCheck(cfg) ==
    IF cfg.optimized THEN "ok"                        \* -O drops the assert
    ELSE IF IsNone(cfg.extension) THEN "AttributeError"  \* None.startswith
    ELSE IF StartsWith(Val(cfg.extension), ".") THEN "ok"
    ELSE "AssertionError"

\* x + extension or ''
OrEmpty(x) == IF x = <<>> THEN <<>> ELSE x

\* The lambda mapped over the id column.
ResolvedId(cfg, x) ==
    IF ~IsNone(cfg.root)
    THEN PathJoin(ExpandUser(Val(cfg.root)), OrEmpty(x \o Val(cfg.extension)))
    ELSE x \o Val(cfg.extension)

\* "ok", or the exception the mapping over the id column raises.
ResolveStatus(frame, cfg) ==
    IF IsNone(cfg.root) /\ IsNone(cfg.extension) THEN "ok"   \* no mapping
    ELSE IF frame # <<>> /\ IsNone(cfg.extension) THEN "TypeError"  \* x + None
    ELSE "ok"

ResolveIds(frame, cfg) ==
    IF IsNone(cfg.root) /\ IsNone(cfg.extension) THEN frame
    ELSE [i \in DOMAIN frame |-> [frame[i] EXCEPT !.id = ResolvedId(cfg, @)]]

\* classes = sorted(samples[label_target].unique())
Classes(frame) == Sorted(Unique(Column(frame, "target")))

ClassToIdx(frame, cfg) ==
    IF IsNone(cfg.class_to_idx) THEN Enumerate(Classes(frame))
    ELSE Val(cfg.class_to_idx)

\* "ok", or the KeyError of class_to_idx[x] for a target that is no key.
MapStatus(frame, cfg) ==
    LET class_to_idx == ClassToIdx(frame, cfg)
    IN  IF \A i \in DOMAIN frame : HasKey(class_to_idx, frame[i].target)
        THEN "ok" ELSE "KeyError"

\* samples[label_target].map(lambda x: class_to_idx[x])
MapTargets(frame, cfg) ==
    LET class_to_idx == ClassToIdx(frame, cfg)
    IN  [i \in DOMAIN frame |->
            [frame[i] EXCEPT !.target = Lookup(class_to_idx, @)]]

\* "ok", or the first exception the statements shared by both constructors raise.
PrepareStatus(frame, cfg) ==
    LET checked == ExtensionCheck(cfg)
        resolved == ResolveStatus(frame, cfg)
    IN  IF checked # "ok" THEN checked
        ELSE IF resolved # "ok" THEN resolved
        ELSE MapStatus(ResolveIds(frame, cfg), cfg)

NoDataset ==
    [kind |-> "none", status |-> "none", doubled |-> "no", samples |-> <<>>,
     ids |-> <<>>, classes |-> <<>>, class_to_idx |-> {}, num_classes |-> 0]

Raised(kind, exc, doubled) ==
    [NoDataset EXCEPT !.kind = kind, !.status = exc, !.doubled = doubled]

\* ImageWithPandas.__init__
ImageWithPandas(frame, cfg, doubled) ==
    LET status == PrepareStatus(frame, cfg)
        resolved == ResolveIds(frame, cfg)
        mapped == MapTargets(resolved, cfg)
        pairs == DropDuplicates([i \in DOMAIN mapped |->
                                   <<mapped[i].id, mapped[i].target>>])
        class_to_idx == ClassToIdx(resolved, cfg)
    IN  IF status # "ok"
        THEN Raised("ImageWithPandas", status, doubled)
        ELSE [kind |-> "ImageWithPandas", status |-> "ok", doubled |-> doubled,
              samples |-> [i \in DOMAIN pairs |->
                             [row |-> i - 1, id |-> pairs[i][1], target |-> pairs[i][2]]],
              ids |-> <<>>,
              classes |-> Classes(resolved),
              class_to_idx |-> class_to_idx,
              num_classes |-> Cardinality(class_to_idx)]

\* self.ids = list(samples[label_id].drop_duplicates())
Ids(samples) == FirstOccurrences(Column(samples, "id"))

\* ImageBboxWithPandas.__init__
ImageBboxWithPandas(frame, cfg) ==
    LET status == PrepareStatus(frame, cfg)
        resolved == ResolveIds(frame, cfg)
        mapped == MapTargets(resolved, cfg)
        class_to_idx == ClassToIdx(resolved, cfg)
    IN  IF status # "ok"
        THEN Raised("ImageBboxWithPandas", status, "no")
        ELSE [kind |-> "ImageBboxWithPandas", status |-> "ok", doubled |-> "no",
              samples |-> mapped,
              ids |-> Ids(mapped),
              classes |-> <<>>,
              class_to_idx |-> class_to_idx,
              num_classes |-> Cardinality(class_to_idx)]

\* len(dataset)
DatasetLen(d) ==
    IF d.kind = "ImageWithPandas" THEN Len(d.samples) ELSE Len(d.ids)

\* Mutant of HasNaN: only the first row of the group is tested.
HasNaN_FirstRowOnly(boxes) ==
    boxes # <<>> /\ \E j \in 1..4 : NotEqualSelf(boxes[1][j])

\* if (boxes != boxes).any()
HasNaN(boxes) ==
    \E i \in DOMAIN boxes : \E j \in 1..4 : NotEqualSelf(boxes[i][j])

\* boxes[:, 2] = boxes[:, 0] + boxes[:, 2]; boxes[:, 3] = boxes[:, 1] + boxes[:, 3]
ToCorners(b) == <<b[1], b[2], Add(b[1], b[3]), Add(b[2], b[4])>>

NoResult == [index |-> -1, image |-> <<>>, labels |-> <<>>, boxes |-> <<>>]

\* ImageBboxWithPandas.__getitem__ of a dataset without transforms
GetItemResult(d, index) ==
    LET image_id == d.ids[index + 1]
        rows == SelectSeq(d.samples, LAMBDA r : r.id = image_id)
        labels == Column(rows, "target")
        xyxy == [i \in DOMAIN rows |-> ToCorners(rows[i].box)]
        boxes == IF HasNaN(xyxy) THEN <<>> ELSE xyxy
        bboxes == IF Len(boxes) = 0
                  THEN [i \in 1..Len(labels) |-> <<>>]   \* a stack of (0, 4) arrays
                  ELSE boxes
    IN  [index |-> index, image |-> image_id, labels |-> labels, boxes |-> bboxes]

\* dataframe.groupby(label_id).size() joined to the rows on label_id
Merge(frame) ==
    [i \in DOMAIN frame |->
        [row |-> i - 1, id |-> frame[i].id, target |-> frame[i].target,
         box |-> frame[i].box,
         count |-> Cardinality({j \in DOMAIN frame : frame[j].id = frame[i].id})]]

\* Mutant of CountValues: the count column is not reduced to its distinct values.
CountValues_All(merged) == Column(merged, "count")

\* dataframe['count'].drop_duplicates().values
CountValues(merged) == FirstOccurrences(Column(merged, "count"))

NoSplit == [status |-> "none", instances |-> <<>>]

\* ImageBboxWithPandas.split_with_count
SplitResult(rows, cfg) ==
    LET merged == Merge(Frame(rows))
        numbers == CountValues(merged)
        instances == [k \in DOMAIN numbers |->
                        ImageBboxWithPandas(
                            SelectSeq(merged, LAMBDA r : r.count = numbers[k]), cfg)]
    IN  IF \E k \in DOMAIN instances : instances[k].status # "ok"
        THEN [status |-> instances[1].status, instances |-> <<>>]
        ELSE [status |-> "ok", instances |-> instances]

(***************************************************************************)
(* Inputs of the table-backed datasets.                                    *)
(***************************************************************************)
MaxRows == 3
MaxBoxRows == 2
MaxSplitRows == 6

Box1 == <<Num(1), Num(1), Num(2), Num(2)>>
Box2 == <<Num(10), Num(20), Num(5), Num(8)>>
BoxNaNx == <<NaN, Num(1), Num(2), Num(2)>>
BoxNaNw == <<Num(1), Num(1), NaN, Num(2)>>

Row(id, target, box) == [id |-> id, target |-> target, box |-> box]

Labels == {<<"a">>, <<"a", "b">>, <<"b">>}

\* Rows for the class-index and deduplication properties.
LabelRows == {Row(i, t, Box1) : i \in {<<"a">>, <<"b">>}, t \in Labels}

\* Rows for __getitem__: boxes with and without NaN.
BoxRows ==
    {Row(i, t, b) : i \in {<<"a">>, <<"b">>}, t \in {<<"a">>, <<"b">>},
                    b \in {Box1, Box2, BoxNaNx, BoxNaNw}}

\* Rows for split_with_count: three image ids.
SplitRows == {Row(i, <<"a">>, Box1) : i \in {<<"a">>, <<"b">>, <<"a", "b">>}}

Reversed == {<< <<"a">>, 2 >>, << <<"a", "b">>, 1 >>, << <<"b">>, 0 >>}
Partial == {<< <<"a">>, 0 >>}
Merging == {<< <<"a">>, 0 >>, << <<"a", "b">>, 0 >>, << <<"b">>, 1 >>}

Config(root, extension, class_to_idx, optimized) ==
    [root |-> root, extension |-> extension, class_to_idx |-> class_to_idx,
     optimized |-> optimized]

Configs ==
    {Config(r, e, c, o) : r \in {None, Some(<<"~">>)},
                          e \in {None, Some(<<".", "p">>), Some(<<"p">>)},
                          c \in {None, Some(Reversed), Some(Partial), Some(Merging)},
                          o \in BOOLEAN}

\* Configurations that differ in the path resolution only.
PathConfigs ==
    {Config(r, Some(<<".", "p">>), None, FALSE) : r \in {None, Some(<<"~">>)}}

SplitConfigs == PathConfigs \cup {Config(None, None, None, o) : o \in BOOLEAN}

\* "T with every row duplicated": after the table, or each row next to itself.
Appended(t) == t \o t
Interleaved(t) == [i \in 1..(2 * Len(t)) |-> t[(i + 1) \div 2]]

(***************************************************************************)
(* Operations on the table-backed datasets                                 *)
(***************************************************************************)
ChainIdle ==
    /\ init_loaders = <<>>
    /\ loaders = <<>>
    /\ length = 0
    /\ pc = "idle"
    /\ run_loaders = <<>>
    /\ available = <<>>
    /\ len_available = 0
    /\ yielded = EmptyBag
    /\ exhausted = {}
    /\ last = NoEvent
    /\ earlier_done = FALSE

TableIdle ==
    /\ table = <<>>
    /\ config = Config(None, None, None, FALSE)
    /\ ds = NoDataset
    /\ got = NoResult
    /\ split = NoSplit

ConstructImageWithPandas ==
    /\ ds = NoDataset
    /\ \E doubled \in {"no", "appended", "interleaved"} :
         ds' = ImageWithPandas(
                 Frame(CASE doubled = "no" -> table
                         [] doubled = "appended" -> Appended(table)
                         [] doubled = "interleaved" -> Interleaved(table)),
                 config, doubled)
    /\ got' = NoResult
    /\ UNCHANGED <<table, config, split, chainVars>>

ConstructImageBboxWithPandas ==
    /\ ds = NoDataset
    /\ ds' = ImageBboxWithPandas(Frame(table), config)
    /\ got' = NoResult
    /\ UNCHANGED <<table, config, split, chainVars>>

GetItem ==
    /\ ds.kind = "ImageBboxWithPandas"
    /\ ds.status = "ok"
    /\ \E index \in 0..(Len(ds.ids) - 1) : got' = GetItemResult(ds, index)
    /\ UNCHANGED <<table, config, ds, split, chainVars>>

SplitWithCount ==
    /\ split = NoSplit
    /\ split' = SplitResult(table, config)
    /\ UNCHANGED <<table, config, ds, got, chainVars>>

TableInit(rows, n, configs) ==
    /\ ChainIdle
    /\ table \in TuplesUpTo(rows, n)
    /\ config \in configs
    /\ ds = NoDataset
    /\ got = NoResult
    /\ split = NoSplit

DatasetInit == TableInit(LabelRows, MaxRows, Configs)
DatasetNext == ConstructImageWithPandas \/ ConstructImageBboxWithPandas
DatasetSpec == DatasetInit /\ [][DatasetNext]_vars

DetectionInit == TableInit(BoxRows, MaxBoxRows, PathConfigs)
DetectionNext == ConstructImageBboxWithPandas \/ GetItem
DetectionSpec == DetectionInit /\ [][DetectionNext]_vars

SplitInit == TableInit(SplitRows, MaxSplitRows, SplitConfigs)
SplitNext == SplitWithCount
SplitSpec == SplitInit /\ [][SplitNext]_vars

Init == ChainInit /\ TableIdle

Next == SetLoaders \/ Iter \/ Snapshot \/ Pull

Spec == Init /\ [][Next]_vars

\* A consumer that keeps pulling: the generator's steps are taken while enabled.
FairSpec == Spec /\ WF_vars(Snapshot \/ Pull)

(***************************************************************************)
(* Properties of DataLoaderChain                                           *)
(***************************************************************************)
Live == {available[i].src : i \in DOMAIN available}

\* The items one pass over each of the loaders ls produces: <<source, position>>.
AllItems(ls) == {<<i, k>> : i \in 1..Len(ls), k \in 1..MaxItems} \cap
                {<<i, k>> \in (1..Len(ls)) \X (1..MaxItems) : k <= ls[i].n}

RECURSIVE DeclaredTotal(_, _)
DeclaredTotal(ls, i) ==
    IF i > Len(ls) THEN 0 ELSE ls[i].len + DeclaredTotal(ls, i + 1)

\* This step is a pull: the generator called next() on one of its iterators.
PullTaken ==
    /\ pc = "draining"
    /\ last' # last
    /\ last'.kind \in {"yield", "exhausted"}

\* C1: a run over N >= 1 finite sources, some possibly empty, that the consumer
\* keeps pulling ends after finitely many pulls (unless the consumer drops it
\* for a new generator).
C1_Terminates ==
    (pc = "draining" /\ Len(run_loaders) >= 1) ~> (pc = "done" \/ pc = "created")

C1_Witness ==
    /\ pc = "done"
    /\ Len(run_loaders) >= 2
    /\ \E i \in 1..Len(run_loaders) : run_loaders[i].n = 0
    /\ yielded # EmptyBag

\* C2: a run that reached its end has yielded each item of each source the
\* merger was configured with exactly once, on the first run and on later
\* ones, and every run starts from fresh iterators over the configured sources.
C2_EachItemOnce ==
    /\ [](pc = "done" =>
            /\ BagToSet(yielded) = AllItems(run_loaders)
            /\ \A x \in BagToSet(yielded) : CopiesIn(x, yielded) = 1
            /\ BagCardinality(yielded) = Cardinality(AllItems(run_loaders)))
    /\ [][(pc = "created" /\ pc' = "draining") =>
            /\ run_loaders' = loaders
            /\ Len(available') = Len(loaders)
            /\ \A i \in 1..Len(loaders) : available'[i] = [src |-> i, pos |-> 0]]_vars

C2_Witness ==
    /\ pc = "done"
    /\ earlier_done
    /\ BagCardinality(yielded) >= 3
    /\ Len(run_loaders) = 2

\* C3: within a run the live set only shrinks, a source leaves it exactly when
\* a pull on it signals exhaustion, every pull targets a live source, no item
\* is yielded from a removed source, and the run ends when no source is live.
C3_LiveSetShrinks ==
    [][PullTaken =>
         /\ Live' \subseteq Live
         /\ last'.src \in Live
         /\ last'.src \notin exhausted
         /\ (last'.kind = "yield") => (Live' = Live)
         /\ (last'.kind = "exhausted") => (Live' = Live \ {last'.src})
         /\ exhausted' = (1..Len(run_loaders)) \ Live'
         /\ len_available' = Cardinality(Live')
         /\ (pc' = "done") <=> (Live' = {})]_vars

C3_Witness ==
    /\ last.kind = "yield"
    /\ exhausted # {}
    /\ last.src \notin exhausted

\* C4 as stated: the configured sources and the length are those of construction.
C4_FixedAtConstruction ==
    /\ loaders = init_loaders
    /\ length = DeclaredTotal(init_loaders, 1)

\* C4 as amended: the configured sources change only by an assignment of a
\* tuple to the loaders property, never by iteration, and the length is the
\* sum of the declared lengths of the currently configured sources.
C4_LengthOfConfigured ==
    /\ [](length = DeclaredTotal(loaders, 1))
    /\ [][(loaders' # loaders \/ length' # length) =>
            /\ \E value \in AssignedValues : value.tuple /\ loaders' = value.val
            /\ UNCHANGED <<pc, run_loaders, available, len_available, yielded>>]_vars
    /\ [](init_loaders \in LoaderTuples) /\ [][init_loaders' = init_loaders]_vars

C4_Witness ==
    /\ pc = "done"
    /\ earlier_done
    /\ run_loaders = init_loaders
    /\ loaders # init_loaders
    /\ length # DeclaredTotal(init_loaders, 1)
    /\ \E i \in 1..Len(init_loaders) : init_loaders[i].len # init_loaders[i].n

\* C10: iterating a merger configured with no sources ends normally at once,
\* without raising and without an item.
C10_EmptyMergerEndsNormally ==
    (pc \in {"done", "raised"} /\ run_loaders = <<>>) =>
        (pc = "done" /\ yielded = EmptyBag)

(***************************************************************************)
(* Properties of the table-backed datasets                                 *)
(***************************************************************************)
Constructed == ds.kind # "none"

\* The path of an id under the configuration of this behaviour.
PathOf(x) ==
    IF IsNone(config.root) /\ IsNone(config.extension) THEN x
    ELSE ResolvedId(config, x)

\* C5: construction accepts the extension exactly when it is None or starts
\* with '.': with None it passes the check and the paths are join(root, id) or
\* the id itself; any other extension fails with a ValueError.
C5_ExtensionPrecondition ==
    Constructed =>
        IF IsNone(config.extension)
        THEN /\ ds.status \in {"ok", "KeyError"}
             /\ ds.status = "ok" =>
                  \A i \in DOMAIN ds.samples : \E j \in DOMAIN table :
                     ds.samples[i].id =
                        IF IsNone(config.root) THEN table[j].id
                        ELSE PathJoin(ExpandUser(Val(config.root)), table[j].id)
        ELSE IF StartsWith(Val(config.extension), ".")
        THEN ds.status \in {"ok", "KeyError"}
        ELSE ds.status = "ValueError"

TableLabels == {table[i].target : i \in DOMAIN table}

Rank(l) == Cardinality({m \in TableLabels : StrLess(m, l)})

\* C6: without an explicit class_to_idx both datasets map each distinct label
\* of the table to its rank in the lexicographic order of the distinct labels,
\* a bijection onto 0..k-1 that depends on the set of labels only.
C6_ClassIndexByRank ==
    (Constructed /\ ds.status = "ok" /\ IsNone(config.class_to_idx)) =>
        /\ ds.class_to_idx = {<<l, Rank(l)>> : l \in TableLabels}
        /\ {kv[2] : kv \in ds.class_to_idx} = 0..(Cardinality(TableLabels) - 1)
        /\ ds.num_classes = Cardinality(TableLabels)
        /\ ds.kind = "ImageBboxWithPandas" =>
             \A i \in DOMAIN table : ds.samples[i].target = Rank(table[i].target)
        /\ ds.kind = "ImageWithPandas" =>
             {ds.samples[i].target : i \in DOMAIN ds.samples} =
                {Rank(l) : l \in TableLabels}

C6_Witness ==
    /\ ds.kind = "ImageBboxWithPandas"
    /\ ds.status = "ok"
    /\ IsNone(config.class_to_idx)
    /\ Len(table) = 3
    /\ table[1].target = <<"b">> /\ table[2].target = <<"a", "b">>
    /\ table[3].target = <<"a">>
    /\ ds.class_to_idx = {<< <<"a">>, 0 >>, << <<"a", "b">>, 1 >>, << <<"b">>, 2 >>}

\* The (resolved id, class index) pair of a row of the table.
PairOf(r) == <<PathOf(r.id), Lookup(ds.class_to_idx, r.target)>>

TablePairs == {PairOf(table[i]) : i \in DOMAIN table}

FirstRowOf(pair) ==
    CHOOSE i \in DOMAIN table :
        /\ PairOf(table[i]) = pair
        /\ \A j \in 1..(i - 1) : PairOf(table[j]) # pair

\* C7: the samples of ImageWithPandas are the distinct (resolved id, class
\* index) pairs of the table, indexed densely from 0, whether it was built from
\* the table or from the table with every row duplicated.
C7_DistinctPairs ==
    (ds.kind = "ImageWithPandas" /\ ds.status = "ok") =>
        /\ DatasetLen(ds) = Cardinality(TablePairs)
        /\ {<<ds.samples[i].id, ds.samples[i].target>> : i \in DOMAIN ds.samples}
              = TablePairs
        /\ \A i \in DOMAIN ds.samples : ds.samples[i].row = i - 1
        /\ \A i, j \in DOMAIN ds.samples :
              i < j => FirstRowOf(<<ds.samples[i].id, ds.samples[i].target>>)
                         < FirstRowOf(<<ds.samples[j].id, ds.samples[j].target>>)

C7_Witness ==
    /\ ds.kind = "ImageWithPandas"
    /\ ds.status = "ok"
    /\ ds.doubled = "appended"
    /\ Len(table) = 3
    /\ table[1] = table[3]
    /\ table[1] # table[2]
    /\ DatasetLen(ds) = 2

BoxCountOf(id) == Cardinality({i \in DOMAIN table : table[i].id = id})

BoxCounts == {BoxCountOf(table[i].id) : i \in DOMAIN table}

RowsWithCount(c) == {i \in DOMAIN table : BoxCountOf(table[i].id) = c}

\* C8: split_with_count returns one dataset per distinct box count; each holds
\* exactly the rows of the ids with that count, its length is the number of
\* those ids, and every row of the table is in exactly one of them.
C8_SplitPartitions ==
    split.status = "ok" =>
        /\ Len(split.instances) = Cardinality(BoxCounts)
        /\ \A k \in DOMAIN split.instances :
             LET inst == split.instances[k] IN
             \E c \in BoxCounts :
                /\ {inst.samples[j].row + 1 : j \in DOMAIN inst.samples}
                      = RowsWithCount(c)
                /\ Len(inst.samples) = Cardinality(RowsWithCount(c))
                /\ DatasetLen(inst) =
                      Cardinality({table[i].id : i \in RowsWithCount(c)})
                /\ \A j \in DOMAIN inst.samples :
                      LET r == table[inst.samples[j].row + 1] IN
                      /\ inst.samples[j].id = PathOf(r.id)
                      /\ inst.samples[j].box = r.box
        /\ \A i \in DOMAIN table :
             Cardinality({<<k, j>> \in (DOMAIN split.instances) \X (DOMAIN table) :
                            /\ j <= Len(split.instances[k].samples)
                            /\ split.instances[k].samples[j].row = i - 1}) = 1

C8_Witness ==
    /\ split.status = "ok"
    /\ Len(table) = 6
    /\ Len(split.instances) = 3
    /\ \A k \in 1..3 : DatasetLen(split.instances[k]) = 1

\* The rows of the table that belong to the image of the last __getitem__.
GotGroup ==
    SelectSeq(table, LAMBDA r : PathOf(r.id) = ds.ids[got.index + 1])

====
